---- MODULE Spec2Model ----
(***************************************************************************)
(* Model of azure/appconfiguration/provider/_client_manager.py:            *)
(*   _ConfigurationClientWrapper  (conditional checks, loads, refreshes)   *)
(*   ConfigurationClientManager   (replica pool, discovery, backoff)       *)
(*                                                                         *)
(* The specifications share the variables:                                 *)
(*   SpecRefresh  refresh_configuration_settings against a store           *)
(*   SpecFlags    refresh_feature_flags against a store                    *)
(*   SpecPool     the manager: construction, refresh_clients, backoff      *)
(*   SpecBackoff  the manager with discovery off: construction, backoff    *)
(*   SpecCalc     _calculate_backoff over attempts, windows and draws      *)
(*   SpecRepeat   one client failing again and again as the clock moves    *)
(*   SpecClose    the manager from construction over rebuilds to close     *)
(*   SpecRecover  backoff and recovery under a clock that keeps advancing  *)
(***************************************************************************)
EXTENDS Integers, Sequences, FiniteSets, TLC

(* ------------------------------ bounds --------------------------------- *)
\* watched (key, label) pairs of the configuration store are 1..NumKeys
NumKeys == 2
\* etags the store hands out are 1..MaxEtag
MaxEtag == 2
\* longest selector list a caller passes
MaxSelects == 1
\* feature-flag (key, label) pairs are 1..NumFlags
NumFlags == 2

\* replica endpoints discovery can advertise are 1..NumReplicas
NumReplicas == 2
\* longest endpoint list one discovery call returns
MaxDiscovered == 2
\* clients a manager creates over its life
MaxClients == 3
\* min_backoff_sec and max_backoff_sec are drawn from 0..MaxBackoffSec
MaxBackoffSec == 2
\* failed attempts the caller reports to one manager, over all its clients
MaxAttempts == 1
\* random.uniform(0.0, 1.0) is drawn from {0, 1/JitterSteps, ..., 1}
JitterSteps == 1
\* steps of the clock in one behaviour
MaxTicks == 2
\* _calculate_backoff is applied to the attempts 0..MaxCalcAttempts
MaxCalcAttempts == 64

Keys == 1..NumKeys
Etags == 1..MaxEtag
Flags == 1..NumFlags

\* Python's None as an etag, and a key the store does not hold
None == 0
Absent == 0

\* A key filter is modelled by the set of keys it matches: "*" and the
\* exact filter for key 1.
Filters == {Keys, {1}}

RECURSIVE SeqsUpTo(_, _)
SeqsUpTo(S, n) ==
    IF n = 0 THEN {<< >>}
    ELSE LET shorter == SeqsUpTo(S, n - 1)
         IN  shorter \cup {Append(s, x) : s \in shorter, x \in S}

SelectLists == SeqsUpTo(Filters, MaxSelects)

\* dictionaries (key, label) -> etag, as functions on a subset of the keys
Dicts(K) == UNION {[D -> Etags \cup {None}] : D \in SUBSET K}

Min(S) == CHOOSE x \in S : \A y \in S : x <= y

\* iteration order of a dictionary: ascending key
RECURSIVE SetToSeq(_)
SetToSeq(S) ==
    IF S = {} THEN << >>
    ELSE LET m == Min(S) IN << m >> \o SetToSeq(S \ {m})

VARIABLES
    \* the configuration store, the caller's watched-keys map, and what the
    \* last refresh_configuration_settings call returned and requested
    server, refresh_on, result, calls,
    \* the same for feature flags
    ff_server, ff_refresh_on, ff_result, ff_calls,
    \* ConfigurationClientManager: where its construction stands, the
    \* arguments of __init__, every _ConfigurationClientWrapper created so far
    \* (a client is its index in heap), the fields _replica_clients and
    \* _next_update_time, time.time() in seconds with the number of clock
    \* steps taken, and the last call made on the manager
    phase, cfg, heap, _replica_clients, _next_update_time, clock, ticks, last

refreshVars == << server, refresh_on, result, calls >>
flagVars == << ff_server, ff_refresh_on, ff_result, ff_calls >>
poolVars == << phase, cfg, heap, _replica_clients, _next_update_time,
               clock, ticks, last >>
vars == << refreshVars, flagVars, poolVars >>

(* ----------------------- the remote store client ----------------------- *)
\* AzureAppConfigurationClient.get_configuration_setting with
\* MatchConditions.IfModified: the setting, None when not modified, or an
\* HttpResponseError (404 when the key is not there, another status when
\* the request fails).
ClientGet(srv, key, etag, fault) ==
    IF fault THEN [kind |-> "error", etag |-> None]
    ELSE IF srv[key] = Absent THEN [kind |-> "not_found", etag |-> None]
    ELSE IF etag # None /\ srv[key] = etag
         THEN [kind |-> "not_modified", etag |-> None]
    ELSE [kind |-> "setting", etag |-> srv[key]]

\* AzureAppConfigurationClient.list_configuration_settings: the settings
\* whose key the filter matches, as <<key, etag>>, in key order
ClientList(srv, filter) ==
    LET held == {k \in filter \cap DOMAIN srv : srv[k] # Absent}
        order == SetToSeq(held)
    IN  [i \in 1..Len(order) |-> << order[i], srv[order[i]] >>]

(* --------------------- _ConfigurationClientWrapper --------------------- *)
\* a check that takes "not modified" for a change
check_not_modified_as_changed(srv, key, etag, fault) ==
    LET r == ClientGet(srv, key, etag, fault)
    IN  IF r.kind = "error"
        THEN [changed |-> FALSE, updated |-> None, raised |-> TRUE]
        ELSE IF r.kind = "not_found" /\ etag = None
        THEN [changed |-> FALSE, updated |-> None, raised |-> FALSE]
        ELSE [changed |-> TRUE, updated |-> r.etag, raised |-> FALSE]

\* a check that takes every 404 for a deleted key
check_not_found_as_deleted(srv, key, etag, fault) ==
    LET r == ClientGet(srv, key, etag, fault)
    IN  IF r.kind = "setting"
        THEN [changed |-> TRUE, updated |-> r.etag, raised |-> FALSE]
        ELSE IF r.kind = "not_found"
        THEN [changed |-> TRUE, updated |-> None, raised |-> FALSE]
        ELSE IF r.kind = "error"
        THEN [changed |-> FALSE, updated |-> None, raised |-> TRUE]
        ELSE [changed |-> FALSE, updated |-> None, raised |-> FALSE]

\* _check_configuration_setting: (changed, updated_sentinel) or a raise.
\* updated is the etag of the returned setting, None when none is returned.
_check_configuration_setting(srv, key, etag, fault) ==
    LET r == ClientGet(srv, key, etag, fault)
    IN  IF r.kind = "setting"
        THEN [changed |-> TRUE, updated |-> r.etag, raised |-> FALSE]
        ELSE IF r.kind = "not_found"
        THEN IF etag # None
             THEN [changed |-> TRUE, updated |-> None, raised |-> FALSE]
             ELSE [changed |-> FALSE, updated |-> None, raised |-> FALSE]
        ELSE IF r.kind = "error"
        THEN [changed |-> FALSE, updated |-> None, raised |-> TRUE]
        ELSE [changed |-> FALSE, updated |-> None, raised |-> FALSE]

\* the inner loop of load_configuration_settings over one listing
RECURSIVE LoadConfigs(_, _, _, _)
LoadConfigs(configs, i, acc, watched) ==
    IF i > Len(configs) THEN acc
    ELSE LET config == configs[i]
             sk == IF config[1] \in DOMAIN watched
                   THEN [acc.sentinel_keys EXCEPT ![config[1]] = config[2]]
                   ELSE acc.sentinel_keys
         IN  LoadConfigs(configs, i + 1,
                 [settings |-> Append(acc.settings, config),
                  sentinel_keys |-> sk], watched)

\* the outer loop of load_configuration_settings over the selectors
RECURSIVE LoadSelects(_, _, _, _, _)
LoadSelects(srv, selects, i, acc, watched) ==
    IF i > Len(selects) THEN acc
    ELSE LoadSelects(srv, selects, i + 1,
             LoadConfigs(ClientList(srv, selects[i]), 1, acc, watched),
             watched)

\* load_configuration_settings(selects, refresh_on): sentinel_keys defaults
\* to refresh_on itself, so the etags are written into the map passed in and
\* that same map is returned.
load_configuration_settings(srv, selects, watched) ==
    LoadSelects(srv, selects, 1,
        [settings |-> << >>, sentinel_keys |-> watched], watched)

\* One entry of the request log: a conditional check of a key with the etag
\* sent, the answer it got and the (changed, updated_sentinel) derived from
\* it, the start of a load, or the listing of the i-th selector.
CheckCall(key, etag, kind, c) ==
    [req |-> "check", key |-> key, etag |-> etag, kind |-> kind,
     changed |-> c.changed, updated |-> c.updated]
LoadCall ==
    [req |-> "load", key |-> 0, etag |-> None, kind |-> "none",
     changed |-> FALSE, updated |-> None]
ListCall(i) ==
    [req |-> "list", key |-> i, etag |-> None, kind |-> "none",
     changed |-> FALSE, updated |-> None]

\* the requests load_configuration_settings sends: one listing per selector
ListCalls(selects) ==
    << LoadCall >> \o [i \in 1..Len(selects) |-> ListCall(i)]

\* a checking loop that takes a failed check for "no change" and goes on
RECURSIVE CheckLoopPastErrors(_, _, _, _, _)
CheckLoopPastErrors(srv, order, i, acc, fault) ==
    IF i > Len(order) THEN acc
    ELSE LET key == order[i]
             c == _check_configuration_setting(srv, key,
                      acc.updated_sentinel_keys[key], key = fault)
             usk == IF c.updated # None
                    THEN [acc.updated_sentinel_keys EXCEPT ![key] = c.updated]
                    ELSE acc.updated_sentinel_keys
         IN  CheckLoopPastErrors(srv, order, i + 1,
                 [need_refresh |-> acc.need_refresh \/ c.changed,
                  updated_sentinel_keys |-> usk,
                  calls |-> Append(acc.calls,
                      CheckCall(key, acc.updated_sentinel_keys[key],
                          ClientGet(srv, key, acc.updated_sentinel_keys[key],
                                    key = fault).kind,
                          c)),
                  raised |-> FALSE], fault)

\* a checking loop that stops at the first entry found changed
RECURSIVE CheckLoopUntilChanged(_, _, _, _, _)
CheckLoopUntilChanged(srv, order, i, acc, fault) ==
    IF i > Len(order) \/ acc.raised \/ acc.need_refresh THEN acc
    ELSE LET key == order[i]
             c == _check_configuration_setting(srv, key,
                      acc.updated_sentinel_keys[key], key = fault)
         IN  CheckLoopUntilChanged(srv, order, i + 1,
                 [need_refresh |-> c.changed,
                  updated_sentinel_keys |-> acc.updated_sentinel_keys,
                  calls |-> Append(acc.calls,
                      CheckCall(key, acc.updated_sentinel_keys[key],
                          ClientGet(srv, key, acc.updated_sentinel_keys[key],
                                    key = fault).kind,
                          c)),
                  raised |-> c.raised], fault)

\* the checking loop of refresh_configuration_settings over the copy's
\* entries; a raise ends it. fault is the key whose check fails (0: none).
RECURSIVE CheckLoop(_, _, _, _, _)
CheckLoop(srv, order, i, acc, fault) ==
    IF i > Len(order) \/ acc.raised THEN acc
    ELSE LET key == order[i]
             c == _check_configuration_setting(srv, key,
                      acc.updated_sentinel_keys[key], key = fault)
             usk == IF c.updated # None
                    THEN [acc.updated_sentinel_keys EXCEPT ![key] = c.updated]
                    ELSE acc.updated_sentinel_keys
         IN  CheckLoop(srv, order, i + 1,
                 [need_refresh |-> acc.need_refresh \/ c.changed,
                  updated_sentinel_keys |-> IF c.raised
                                            THEN acc.updated_sentinel_keys
                                            ELSE usk,
                  calls |-> Append(acc.calls,
                      CheckCall(key, acc.updated_sentinel_keys[key],
                          ClientGet(srv, key, acc.updated_sentinel_keys[key],
                                    key = fault).kind,
                          c)),
                  raised |-> c.raised], fault)

NoResult ==
    [op |-> "none", raised |-> FALSE, changed |-> FALSE,
     sentinel_keys |-> << >>, settings |-> << >>]

\* refresh_configuration_settings(selects, refresh_on, headers): what it
\* returns (ret), what it leaves in the caller's map (watched) and the
\* requests it sent (calls)
refresh_configuration_settings(srv, selects, watched, fault) ==
    LET checked == CheckLoop(srv, SetToSeq(DOMAIN watched), 1,
                       [need_refresh |-> FALSE,
                        updated_sentinel_keys |-> watched,
                        calls |-> << >>, raised |-> FALSE], fault)
        loaded == load_configuration_settings(srv, selects, watched)
    IN  IF checked.raised
        THEN [ret |-> [NoResult EXCEPT !.op = "refresh", !.raised = TRUE],
              watched |-> watched,
              calls |-> checked.calls]
        ELSE IF checked.need_refresh
        THEN [ret |-> [op |-> "refresh", raised |-> FALSE, changed |-> TRUE,
                       sentinel_keys |-> loaded.sentinel_keys,
                       settings |-> loaded.settings],
              watched |-> loaded.sentinel_keys,
              calls |-> checked.calls \o ListCalls(selects)]
        ELSE [ret |-> [op |-> "refresh", raised |-> FALSE, changed |-> FALSE,
                       sentinel_keys |-> watched,
                       settings |-> << >>],
              watched |-> watched,
              calls |-> checked.calls]

(* ----------------------------- feature flags --------------------------- *)
\* an Optional value: None is << >>, a value x is << x >>
NoneOpt == << >>
Some(x) == << x >>

\* truth value Python gives a tuple: a tuple is true unless it is empty
PyTruth(tuple) == Len(tuple) # 0

\* The filter names of the stored feature flags: flag 1 carries a percentage
\* filter and a filter of no known name, the other flags carry none.
FlagFilterNames(flag) ==
    IF flag = 1 THEN << "Microsoft.Percentage", "Contoso.Custom" >> ELSE << >>

PERCENTAGE_FILTER_NAMES == {"Percentage", "Microsoft.Percentage"}
TIME_WINDOW_FILTER_NAMES == {"TimeWindow", "Microsoft.TimeWindow"}
TARGETING_FILTER_NAMES == {"Targeting", "Microsoft.Targeting"}

\* the if/elif chain of load_feature_flags over one filter name
FilterKey(name) ==
    IF name \in PERCENTAGE_FILTER_NAMES THEN "PRCNT"
    ELSE IF name \in TIME_WINDOW_FILTER_NAMES THEN "TIME"
    ELSE IF name \in TARGETING_FILTER_NAMES THEN "TRGT"
    ELSE "CSTM"

FiltersOf(flag) ==
    {FilterKey(FlagFilterNames(flag)[i]) : i \in 1..Len(FlagFilterNames(flag))}

\* the inner loop of load_feature_flags over one listing
RECURSIVE LoadFlags(_, _, _, _)
LoadFlags(flags, i, acc, enabled) ==
    IF i > Len(flags) THEN acc
    ELSE LET ff == flags[i]
             D == DOMAIN acc.sentinel_keys \cup {ff[1]}
             sk == IF enabled
                   THEN [k \in D |-> IF k = ff[1] THEN ff[2]
                                      ELSE acc.sentinel_keys[k]]
                   ELSE acc.sentinel_keys
         IN  LoadFlags(flags, i + 1,
                 [feature_flags |-> Append(acc.feature_flags, ff[1]),
                  sentinel_keys |-> sk,
                  filters_used |-> acc.filters_used \cup FiltersOf(ff[1])],
                 enabled)

\* the outer loop of load_feature_flags over the selectors
RECURSIVE LoadFlagSelects(_, _, _, _, _)
LoadFlagSelects(srv, selectors, i, acc, enabled) ==
    IF i > Len(selectors) THEN acc
    ELSE LoadFlagSelects(srv, selectors, i + 1,
             LoadFlags(ClientList(srv, selectors[i]), 1, acc, enabled),
             enabled)

\* load_feature_flags(feature_flag_selectors, feature_flag_refresh_enabled):
\* the flags, a fresh sentinel map and a fresh filter tally
load_feature_flags(srv, selectors, enabled) ==
    LoadFlagSelects(srv, selectors, 1,
        [feature_flags |-> << >>, sentinel_keys |-> << >>,
         filters_used |-> {}], enabled)

NoFlagResult ==
    [op |-> "none", raised |-> FALSE, changed |-> FALSE,
     sentinel_keys |-> NoneOpt, feature_flags |-> NoneOpt,
     filters_used |-> {}]

\* The loop of refresh_feature_flags over the copy's entries. What
\* _check_configuration_setting returns, the pair (changed, updated), is
\* itself the condition of the if.
RECURSIVE FlagLoop(_, _, _, _, _, _)
FlagLoop(srv, order, i, log, watched, args) ==
    IF i > Len(order)
    THEN [ret |-> [NoFlagResult EXCEPT !.op = "refresh_ff"], calls |-> log]
    ELSE LET key == order[i]
             c == _check_configuration_setting(srv, key, watched[key],
                                               key = args.fault)
             changed == << c.changed, c.updated >>
             log2 == Append(log,
                         CheckCall(key, watched[key],
                             ClientGet(srv, key, watched[key],
                                       key = args.fault).kind,
                             c))
             loaded == load_feature_flags(srv, args.selectors, TRUE)
         IN  IF c.raised
             THEN [ret |-> [NoFlagResult EXCEPT !.op = "refresh_ff",
                                                !.raised = TRUE],
                   calls |-> log2]
             ELSE IF PyTruth(changed)
             THEN [ret |-> [op |-> "refresh_ff", raised |-> FALSE,
                            changed |-> TRUE,
                            sentinel_keys |-> Some(loaded.sentinel_keys),
                            feature_flags |-> Some(loaded.feature_flags),
                            filters_used |-> loaded.filters_used],
                   calls |-> log2 \o ListCalls(args.selectors)]
             ELSE FlagLoop(srv, order, i + 1, log2, watched, args)

\* refresh_feature_flags(refresh_on, feature_flag_selectors, headers)
refresh_feature_flags(srv, watched, selectors, fault) ==
    FlagLoop(srv, SetToSeq(DOMAIN watched), 1, << >>, watched,
             [selectors |-> selectors, fault |-> fault])

(* ---------------------- ConfigurationClientManager --------------------- *)
FALLBACK_CLIENT_REFRESH_EXPIRED_INTERVAL == 3600
MINIMAL_CLIENT_REFRESH_INTERVAL == 30
ms_per_second == 1000
max_attempts == 63

\* An endpoint is a string; "" is << >>. The endpoint the manager is built
\* for, and the endpoints discovery can name (the original among them).
OriginalEndpoint == << 0 >>
Endpoints == {<< i >> : i \in 0..NumReplicas}

\* find_auto_failover_endpoints: None (unknown) or a list of endpoints
DiscoveryResults ==
    {NoneOpt} \cup {Some(l) : l \in SeqsUpTo(Endpoints, MaxDiscovered)}

Configs ==
    [connection_string : BOOLEAN, credential : BOOLEAN,
     endpoint : {<< >>, OriginalEndpoint},
     replica_discovery_enabled : BOOLEAN,
     min_backoff_sec : 0..MaxBackoffSec, max_backoff_sec : 0..MaxBackoffSec]

\* _ConfigurationClientWrapper(endpoint, client): the dataclass defaults.
\* closed counts the close() calls its AzureAppConfigurationClient has had.
NewClient(endpoint, auth) ==
    [endpoint |-> endpoint, auth |-> auth,
     backoff_end_time |-> 0, failed_attempts |-> 0, closed |-> 0]

\* the loop of ConfigurationClientManager.close over the pool, each turn
\* calling _ConfigurationClientWrapper.close
RECURSIVE CloseLoop(_, _, _)
CloseLoop(clients, i, store) ==
    IF i > Len(clients) THEN store
    ELSE CloseLoop(clients, i + 1,
             [store EXCEPT ![clients[i]].closed = @ + 1])

\* a check of the window against the time in seconds
is_active_in_seconds(client, now) == client.backoff_end_time <= now

\* a client that counts as backing off at the very end of its window
is_active_after(client, now) == client.backoff_end_time < now * 1000

\* _ConfigurationClientWrapper.is_active at time.time() = now
is_active(client, now) == client.backoff_end_time <= now * 1000

Max(a, b) == IF a >= b THEN a ELSE b
Smaller(a, b) == IF a <= b THEN a ELSE b

\* m * (1 << k) for m >= 1: the product itself while it is at most cap, and
\* cap + 1 for every larger one. Python's integers do not overflow, and the
\* code only compares the product with max_backoff_milliseconds (the cap).
RECURSIVE ShiftLeft(_, _, _)
ShiftLeft(m, k, cap) ==
    IF m > cap THEN cap + 1
    ELSE IF k = 0 THEN m
    ELSE ShiftLeft(2 * m, k - 1, cap)

\* a delay computed for a window that is empty or upside down as for any other
calculate_backoff_unguarded(config, attempts, jitter) ==
    LET min_backoff_milliseconds == config.min_backoff_sec * ms_per_second
        max_backoff_milliseconds == config.max_backoff_sec * ms_per_second
        calculated == ShiftLeft(Max(1, min_backoff_milliseconds),
                                Smaller(attempts, max_attempts),
                                max_backoff_milliseconds)
        calculated_milliseconds ==
            IF calculated > max_backoff_milliseconds \/ calculated <= 0
            THEN max_backoff_milliseconds
            ELSE calculated
    IN  min_backoff_milliseconds
            + (jitter * (calculated_milliseconds
                             - min_backoff_milliseconds)) \div JitterSteps

\* a delay that is not clamped to max_backoff_milliseconds
calculate_backoff_unclamped(config, attempts, jitter) ==
    LET min_backoff_milliseconds == config.min_backoff_sec * ms_per_second
        max_backoff_milliseconds == config.max_backoff_sec * ms_per_second
        calculated_milliseconds ==
            ShiftLeft(Max(1, min_backoff_milliseconds),
                      Smaller(attempts, max_attempts),
                      max_backoff_milliseconds)
    IN  IF config.max_backoff_sec <= config.min_backoff_sec
        THEN min_backoff_milliseconds
        ELSE min_backoff_milliseconds
                 + (jitter * (calculated_milliseconds
                                  - min_backoff_milliseconds)) \div JitterSteps

\* _calculate_backoff(attempts) in milliseconds, for the draw
\* jitter / JitterSteps of random.uniform(0.0, 1.0)
_calculate_backoff(config, attempts, jitter) ==
    LET min_backoff_milliseconds == config.min_backoff_sec * ms_per_second
        max_backoff_milliseconds == config.max_backoff_sec * ms_per_second
        calculated == ShiftLeft(Max(1, min_backoff_milliseconds),
                                Smaller(attempts, max_attempts),
                                max_backoff_milliseconds)
        calculated_milliseconds ==
            IF calculated > max_backoff_milliseconds \/ calculated <= 0
            THEN max_backoff_milliseconds
            ELSE calculated
    IN  IF config.max_backoff_sec <= config.min_backoff_sec
        THEN min_backoff_milliseconds
        ELSE min_backoff_milliseconds
                 + (jitter * (calculated_milliseconds
                                  - min_backoff_milliseconds)) \div JitterSteps

\* a backoff that sets the end of the window to the bare delay
backoff_from_zero(config, client, now, jitter) ==
    LET attempts == client.failed_attempts + 1
    IN  [client EXCEPT
            !.failed_attempts = attempts,
            !.backoff_end_time = _calculate_backoff(config, attempts, jitter)]

\* backoff(client): the client's record afterwards
backoff(config, client, now, jitter) ==
    LET attempts == client.failed_attempts + 1
    IN  [client EXCEPT
            !.failed_attempts = attempts,
            !.backoff_end_time =
                now * 1000 + _calculate_backoff(config, attempts, jitter)]

\* the loop of get_active_clients
RECURSIVE get_active_clients(_, _, _)
get_active_clients(clients, store, now) ==
    IF clients = << >> THEN << >>
    ELSE LET rest == get_active_clients(Tail(clients), store, now)
         IN  IF is_active(store[Head(clients)], now)
             THEN << Head(clients) >> \o rest
             ELSE rest

\* a search that never finds the client of an endpoint
FindNoClient(clients, store, endpoint, i) == 0

\* the inner loop of refresh_clients: the first client of the pool with
\* this endpoint, 0 when there is none
RECURSIVE FindClient(_, _, _, _)
FindClient(clients, store, endpoint, i) ==
    IF i > Len(clients) THEN 0
    ELSE IF store[clients[i]].endpoint = endpoint THEN clients[i]
    ELSE FindClient(clients, store, endpoint, i + 1)

\* how new clients authenticate: the connection string if there is one
AuthOf(config) ==
    IF config.connection_string THEN "connection_string" ELSE "credential"

\* a rebuild that appends to the pool as it is
KeepAll(clients) == clients

\* a rebuild that starts from the last client of the pool
KeepLast(clients) == << clients[Len(clients)] >>

\* new_clients starts with the original client
KeepOriginal(clients) == << clients[1] >>

\* the outer loop of refresh_clients over the discovered endpoints
RECURSIVE RebuildLoop(_, _, _, _, _, _)
RebuildLoop(failover_endpoints, i, acc, clients, store, auth) ==
    IF i > Len(failover_endpoints) THEN acc
    ELSE LET found == FindClient(clients, store, failover_endpoints[i], 1)
         IN  RebuildLoop(failover_endpoints, i + 1,
                 IF found # 0
                 THEN [acc EXCEPT !.new_clients = Append(@, found)]
                 ELSE [new_clients |->
                           Append(acc.new_clients, Len(acc.store) + 1),
                       store |->
                           Append(acc.store,
                               NewClient(failover_endpoints[i], auth))],
                 clients, store, auth)

\* the clients __init__ creates: the original, then one per endpoint found
InitClients(endpoint, failover_endpoints, auth) ==
    << NewClient(endpoint, auth) >>
        \o [i \in 1..Len(failover_endpoints) |->
                NewClient(failover_endpoints[i], auth)]

\* a guard that forgets the time of the next update
DiscoveryEnabled(config, next_update_time, now) ==
    config.replica_discovery_enabled

\* the guard of refresh_clients: discovery is enabled and the time of the
\* next update is not in the future
DiscoveryDue(config, next_update_time, now) ==
    /\ config.replica_discovery_enabled
    /\ ~(next_update_time > now)

\* a schedule that waits the short interval whatever discovery answers
NextUpdateSoon(found, now) == now + MINIMAL_CLIENT_REFRESH_INTERVAL

\* the _next_update_time refresh_clients sets after a discovery call:
\* the long interval when the answer is None, else the short one
NextUpdateTime(found, now) ==
    IF found = NoneOpt
    THEN now + FALLBACK_CLIENT_REFRESH_EXPIRED_INTERVAL
    ELSE now + MINIMAL_CLIENT_REFRESH_INTERVAL

\* ConfigurationClientManager.__eq__
ManagerEq(clientsA, storeA, clientsB, storeB) ==
    /\ Len(clientsA) = Len(clientsB)
    /\ \A i \in 1..Len(clientsA) :
           /\ clientsA[i] = clientsB[i]
           /\ storeA[clientsA[i]] = storeB[clientsB[i]]

\* a call on the manager: its name, whether it called discovery and what
\* discovery answered, what it returned or raised, and for backoff and
\* _calculate_backoff the attempts and the delay in milliseconds
NoCall ==
    [op |-> "none", discovered |-> FALSE, failover |-> NoneOpt,
     active |-> << >>, client |-> 0, error |-> "none",
     attempts |-> 0, backoff_time |-> 0]

(* --------------------------- SpecPool actions -------------------------- *)
InitPoolIdle ==
    /\ phase = "idle"
    /\ cfg = [connection_string |-> FALSE, credential |-> FALSE,
              endpoint |-> << >>, replica_discovery_enabled |-> FALSE,
              min_backoff_sec |-> 0, max_backoff_sec |-> 0]
    /\ heap = << >>
    /\ _replica_clients = << >>
    /\ _next_update_time = 0
    /\ clock = 0
    /\ ticks = 0
    /\ last = NoCall

\* the caller is about to construct a manager with some arguments
InitManager ==
    /\ phase = "new"
    /\ cfg \in Configs
    /\ heap = << >>
    /\ _replica_clients = << >>
    /\ _next_update_time = 0
    /\ clock = 0
    /\ ticks = 0
    /\ last = NoCall
    /\ server = [k \in Keys |-> Absent]
    /\ refresh_on = << >>
    /\ result = NoResult
    /\ calls = << >>
    /\ ff_server = [f \in Flags |-> Absent]
    /\ ff_refresh_on = << >>
    /\ ff_result = NoFlagResult
    /\ ff_calls = << >>

\* ConfigurationClientManager.__init__, with the answer of the discovery
\* call drawn from answers
ConstructFrom(answers) ==
    /\ phase = "new"
    /\ \E found \in answers :
        LET usable == \/ cfg.connection_string /\ cfg.endpoint # << >>
                      \/ cfg.endpoint # << >> /\ cfg.credential
            auth == IF cfg.connection_string /\ cfg.endpoint # << >>
                    THEN "connection_string" ELSE "credential"
        IN  /\ _next_update_time' = clock + MINIMAL_CLIENT_REFRESH_INTERVAL
            /\ IF ~usable
               THEN /\ phase' = "failed"
                    /\ heap' = << >>
                    /\ _replica_clients' = << >>
                    /\ last' = [NoCall EXCEPT !.op = "construct",
                                    !.discovered = TRUE, !.failover = found,
                                    !.error = "ValueError"]
               ELSE IF found = NoneOpt
               THEN \* iterating None raises after the original is appended
                    /\ phase' = "failed"
                    /\ heap' = << NewClient(cfg.endpoint, auth) >>
                    /\ _replica_clients' = << 1 >>
                    /\ last' = [NoCall EXCEPT !.op = "construct",
                                    !.discovered = TRUE, !.failover = found,
                                    !.error = "TypeError"]
               ELSE /\ phase' = "ready"
                    /\ heap' = InitClients(cfg.endpoint, found[1], auth)
                    /\ _replica_clients' = [i \in 1..Len(heap') |-> i]
                    /\ last' = [NoCall EXCEPT !.op = "construct",
                                    !.discovered = TRUE, !.failover = found]
    /\ UNCHANGED << cfg, clock, ticks, refreshVars, flagVars >>

\* __init__ with any answer of discovery
Construct == ConstructFrom(DiscoveryResults)

\* __init__ when discovery finds no replica or the first one
ConstructSmall == ConstructFrom({Some(<< >>), Some(<< << 1 >> >>)})

\* ConfigurationClientManager.refresh_clients
RefreshClients ==
    /\ phase = "ready"
    /\ IF ~DiscoveryDue(cfg, _next_update_time, clock)
       THEN /\ last' = [NoCall EXCEPT !.op = "refresh_clients"]
            /\ UNCHANGED << heap, _replica_clients, _next_update_time >>
       ELSE \E found \in DiscoveryResults :
            /\ last' = [NoCall EXCEPT !.op = "refresh_clients",
                            !.discovered = TRUE, !.failover = found]
            /\ IF found = NoneOpt
               THEN /\ _next_update_time' = NextUpdateTime(found, clock)
                    /\ UNCHANGED << heap, _replica_clients >>
               ELSE IF Len(found[1]) = 0
               THEN /\ _next_update_time' = NextUpdateTime(found, clock)
                    /\ UNCHANGED << heap, _replica_clients >>
               ELSE LET r == RebuildLoop(found[1], 1,
                                 [new_clients |-> KeepOriginal(_replica_clients),
                                  store |-> heap],
                                 _replica_clients, heap, AuthOf(cfg))
                    IN  /\ Len(r.store) <= MaxClients
                        /\ heap' = r.store
                        /\ _replica_clients' = r.new_clients
                        /\ _next_update_time' = NextUpdateTime(found, clock)
    /\ UNCHANGED << phase, cfg, clock, ticks, refreshVars, flagVars >>

\* ConfigurationClientManager.get_active_clients
GetActiveClients ==
    /\ phase = "ready"
    /\ last' = [NoCall EXCEPT !.op = "get_active_clients",
                    !.active = get_active_clients(_replica_clients, heap, clock)]
    /\ UNCHANGED << phase, cfg, heap, _replica_clients, _next_update_time,
                    clock, ticks, refreshVars, flagVars >>

RECURSIVE FailedAttempts(_)
FailedAttempts(store) ==
    IF store = << >> THEN 0
    ELSE Head(store).failed_attempts + FailedAttempts(Tail(store))

\* ConfigurationClientManager.backoff(client), for a client of the pool,
\* while the manager has been told of fewer than cap failed attempts
BackoffUpTo(cap) ==
    /\ phase = "ready"
    /\ \E i \in 1..Len(_replica_clients), jitter \in 0..JitterSteps :
        LET client == _replica_clients[i]
            after == backoff(cfg, heap[client], clock, jitter)
        IN  /\ FailedAttempts(heap) < cap
            /\ heap' = [heap EXCEPT ![client] = after]
            /\ last' = [NoCall EXCEPT
                            !.op = "backoff", !.client = client,
                            !.attempts = after.failed_attempts,
                            !.backoff_time = after.backoff_end_time
                                                 - clock * ms_per_second]
    /\ UNCHANGED << phase, cfg, _replica_clients, _next_update_time,
                    clock, ticks, refreshVars, flagVars >>

Backoff == BackoffUpTo(MaxAttempts)

\* ConfigurationClientManager._calculate_backoff(attempts), for attempts
\* drawn from tried
CalculateBackoffOf(tried) ==
    /\ phase = "ready"
    /\ \E attempts \in tried, jitter \in 0..JitterSteps :
        last' = [NoCall EXCEPT
                    !.op = "calculate", !.attempts = attempts,
                    !.backoff_time = _calculate_backoff(cfg, attempts, jitter)]
    /\ UNCHANGED << phase, cfg, heap, _replica_clients, _next_update_time,
                    clock, ticks, refreshVars, flagVars >>

CalculateBackoff == CalculateBackoffOf(0..MaxCalcAttempts)

\* ConfigurationClientManager.close; the caller is done with the manager
Close ==
    /\ phase = "ready"
    /\ phase' = "closed"
    /\ heap' = CloseLoop(_replica_clients, 1, heap)
    /\ last' = [NoCall EXCEPT !.op = "close"]
    /\ UNCHANGED << cfg, _replica_clients, _next_update_time,
                    clock, ticks, refreshVars, flagVars >>

\* time.time() moves on by d seconds
Advance(d) ==
    /\ phase = "ready"
    /\ ticks < MaxTicks
    /\ clock' = clock + d
    /\ ticks' = ticks + 1
    /\ last' = [NoCall EXCEPT !.op = "tick"]
    /\ UNCHANGED << phase, cfg, heap, _replica_clients, _next_update_time,
                    refreshVars, flagVars >>

\* a second passes
TickSecond == Advance(1)

\* a second passes, as it does within the clock steps of a behaviour and for
\* as long as a client of the pool is backing off
TickOn ==
    /\ phase = "ready"
    /\ \/ ticks < MaxTicks
       \/ \E i \in 1..Len(_replica_clients) :
              ~is_active(heap[_replica_clients[i]], clock)
    /\ clock' = clock + 1
    /\ ticks' = IF ticks < MaxTicks THEN ticks + 1 ELSE ticks
    /\ last' = [NoCall EXCEPT !.op = "tick"]
    /\ UNCHANGED << phase, cfg, heap, _replica_clients, _next_update_time,
                    refreshVars, flagVars >>

\* the short discovery interval passes
TickMinimal == Advance(MINIMAL_CLIENT_REFRESH_INTERVAL)

\* the long discovery interval passes
TickFallback == Advance(FALLBACK_CLIENT_REFRESH_EXPIRED_INTERVAL)

\* The pool under discovery: any credentials, discovery on or off, one
\* growing backoff window, the clock moving by the discovery intervals.
InitPool ==
    /\ InitManager
    /\ cfg.min_backoff_sec = 1
    /\ cfg.max_backoff_sec = MaxBackoffSec

NextPool ==
    \/ Construct
    \/ RefreshClients
    \/ GetActiveClients
    \/ Backoff
    \/ TickMinimal
    \/ TickFallback

SpecPool == InitPool /\ [][NextPool]_vars

\* Construction and backoff of a pool of one or two clients: any credentials,
\* discovery off, any backoff window, the clock moving by seconds.
InitBackoff ==
    /\ InitManager
    /\ ~cfg.replica_discovery_enabled

NextBackoff ==
    \/ ConstructSmall
    \/ RefreshClients
    \/ GetActiveClients
    \/ Backoff
    \/ TickSecond

SpecBackoff == InitBackoff /\ [][NextBackoff]_vars

\* Backoff and recovery of a pool of one or two clients: the clock never
\* stops while a client is backing off.
NextRecover ==
    \/ ConstructSmall
    \/ Backoff
    \/ GetActiveClients
    \/ TickOn

SpecRecover == InitBackoff /\ [][NextRecover]_vars /\ WF_vars(TickOn)

\* The life of a pool under discovery, from construction to close: any
\* credentials, one backoff window, the clock moving by the short interval.
InitClose ==
    /\ InitPool
    /\ cfg.replica_discovery_enabled

NextClose ==
    \/ Construct
    \/ RefreshClients
    \/ TickMinimal
    \/ Close

SpecClose == InitClose /\ [][NextClose]_vars

\* __init__ when discovery finds no replica
ConstructAlone == ConstructFrom({Some(<< >>)})

\* A manager of one client: a credential, discovery off, any backoff window.
InitCalc ==
    /\ InitManager
    /\ cfg.credential /\ ~cfg.connection_string
    /\ cfg.endpoint = OriginalEndpoint
    /\ ~cfg.replica_discovery_enabled

NextCalc == ConstructAlone \/ CalculateBackoff

SpecCalc == InitCalc /\ [][NextCalc]_vars

\* backoff(client) however often the client has failed before
BackoffOften == BackoffUpTo(MaxCalcAttempts)

\* _calculate_backoff of the attempts a client of the pool stands at
CalculateBackoffOfClient ==
    CalculateBackoffOf({heap[c].failed_attempts : c \in DOMAIN heap})

\* One client failing again and again while the clock moves by seconds.
NextRepeat ==
    \/ ConstructAlone
    \/ BackoffOften
    \/ CalculateBackoffOfClient
    \/ GetActiveClients
    \/ TickSecond

SpecRepeat == InitCalc /\ [][NextRepeat]_vars

(* ------------------------- SpecRefresh actions ------------------------- *)
InitFlagsIdle ==
    /\ ff_server = [f \in Flags |-> Absent]
    /\ ff_refresh_on = << >>
    /\ ff_result = NoFlagResult
    /\ ff_calls = << >>

\* The wrapper the refreshes run on, as the client of a manager built for a
\* credential with a window of one second: it failed once, was backed off
\* at time 0 and is active again a second later.
InitWrapper ==
    /\ phase = "ready"
    /\ cfg = [connection_string |-> FALSE, credential |-> TRUE,
              endpoint |-> OriginalEndpoint,
              replica_discovery_enabled |-> FALSE,
              min_backoff_sec |-> 1, max_backoff_sec |-> 1]
    /\ heap = << backoff(cfg, NewClient(OriginalEndpoint, "credential"),
                         0, 0) >>
    /\ _replica_clients = << 1 >>
    /\ _next_update_time = MINIMAL_CLIENT_REFRESH_INTERVAL
    /\ clock = 1
    /\ ticks = 1
    /\ last = [NoCall EXCEPT !.op = "tick"]

InitRefresh ==
    /\ server \in [Keys -> Etags \cup {Absent}]
    /\ refresh_on \in Dicts(Keys)
    /\ result = NoResult
    /\ calls = << >>
    /\ InitFlagsIdle
    /\ InitWrapper

\* somebody writes or deletes a setting of the store
ServerChange ==
    \E k \in Keys, v \in Etags \cup {Absent} :
        /\ server[k] # v
        /\ server' = [server EXCEPT ![k] = v]
        /\ result' = NoResult
        /\ calls' = << >>
        /\ UNCHANGED << refresh_on, flagVars, poolVars >>

\* the caller runs refresh_configuration_settings with its watched-keys map
RefreshConfigurationSettings ==
    \E selects \in SelectLists, fault \in {0} \cup DOMAIN refresh_on :
        LET r == refresh_configuration_settings(server, selects,
                                                refresh_on, fault)
        IN  /\ result' = r.ret
            /\ refresh_on' = r.watched
            /\ calls' = r.calls
            /\ UNCHANGED << server, flagVars, poolVars >>

NextRefresh == ServerChange \/ RefreshConfigurationSettings

SpecRefresh == InitRefresh /\ [][NextRefresh]_vars

(* -------------------------- SpecFlags actions -------------------------- *)
FlagFilters == {Flags, {1}}
FlagSelectLists == SeqsUpTo(FlagFilters, MaxSelects)

InitRefreshIdle ==
    /\ server = [k \in Keys |-> Absent]
    /\ refresh_on = << >>
    /\ result = NoResult
    /\ calls = << >>

InitFlags ==
    /\ ff_server \in [Flags -> Etags \cup {Absent}]
    /\ ff_refresh_on \in Dicts(Flags)
    /\ ff_result = NoFlagResult
    /\ ff_calls = << >>
    /\ InitRefreshIdle
    /\ InitPoolIdle

\* somebody writes or deletes a feature flag of the store
FlagServerChange ==
    \E f \in Flags, v \in Etags \cup {Absent} :
        /\ ff_server[f] # v
        /\ ff_server' = [ff_server EXCEPT ![f] = v]
        /\ ff_result' = NoFlagResult
        /\ ff_calls' = << >>
        /\ UNCHANGED << ff_refresh_on, refreshVars, poolVars >>

\* the caller runs refresh_feature_flags with its watched feature flags
RefreshFeatureFlags ==
    \E selectors \in FlagSelectLists, fault \in {0} \cup DOMAIN ff_refresh_on :
        LET r == refresh_feature_flags(ff_server, ff_refresh_on,
                                       selectors, fault)
        IN  /\ ff_result' = r.ret
            /\ ff_calls' = r.calls
            /\ UNCHANGED << ff_server, ff_refresh_on, refreshVars, poolVars >>

\* the caller takes the sentinel map a refresh returned as its watched map
AdoptFeatureFlags ==
    /\ ff_result.op = "refresh_ff"
    /\ ff_result.changed
    /\ ff_refresh_on' = ff_result.sentinel_keys[1]
    /\ ff_result' = NoFlagResult
    /\ ff_calls' = << >>
    /\ UNCHANGED << ff_server, refreshVars, poolVars >>

NextFlags == FlagServerChange \/ RefreshFeatureFlags \/ AdoptFeatureFlags

SpecFlags == InitFlags /\ [][NextFlags]_vars

(* -------------------- refresh_configuration_settings ------------------- *)
Count(log, req) == Cardinality({i \in 1..Len(log) : log[i].req = req})
SomeChanged(log) == \E i \in 1..Len(log) : log[i].req = "check" /\ log[i].changed

\* C1: when no check fails with an unrecognized error, a call of
\* refresh_configuration_settings checks every watched entry exactly once,
\* starts a load only after all the checks, exactly once if some entry
\* reported a change and never otherwise, and returns changed = TRUE exactly
\* when it loaded.
C1_OneCheckPerEntryOneLoad ==
    (result.op = "refresh" /\ ~result.raised) =>
        LET n == Cardinality(DOMAIN refresh_on)
        IN  /\ Len(calls) >= n
            /\ \A i \in 1..n : calls[i].req = "check"
            /\ \A i \in (n + 1)..Len(calls) : calls[i].req # "check"
            /\ \A k \in DOMAIN refresh_on :
                   Cardinality({i \in 1..n : calls[i].key = k}) = 1
            /\ Count(calls, "load") = IF SomeChanged(calls) THEN 1 ELSE 0
            /\ result.changed <=> Count(calls, "load") = 1

\* two entries reported a change, one with a new value and one deleted
\* (404 for an entry that had an etag): one load
C1_Witness ==
    /\ result.op = "refresh" /\ ~result.raised
    /\ \E i, j \in 1..Len(calls) :
           /\ calls[i].req = "check" /\ calls[i].kind = "setting"
           /\ calls[j].req = "check" /\ calls[j].kind = "not_found"
           /\ calls[i].changed /\ calls[j].changed
    /\ result.changed
    /\ Count(calls, "load") = 1

AllNotModified(log) ==
    \A i \in 1..Len(log) : log[i].req = "check" => log[i].kind = "not_modified"

\* C2: a call in which every watched entry is answered "not modified"
\* returns changed = FALSE, no settings and the caller's map with every
\* entry as before the call, and sends no load or list request.
C2_NotModifiedKeepsMap ==
    [][(result'.op = "refresh" /\ ~result'.raised /\ AllNotModified(calls')
            /\ Count(calls', "check") = Cardinality(DOMAIN refresh_on))
        => /\ result'.changed = FALSE
           /\ result'.settings = << >>
           /\ result'.sentinel_keys = refresh_on
           /\ refresh_on' = refresh_on
           /\ Count(calls', "load") = 0
           /\ Count(calls', "list") = 0]_vars

C2_Witness ==
    /\ result.op = "refresh" /\ ~result.raised
    /\ Count(calls, "check") = NumKeys
    /\ AllNotModified(calls)
    /\ ~result.changed

\* C16: _check_configuration_setting(key, label, etag) answers a returned
\* setting with (True, that setting), "not modified" with (False, None), and
\* 404 with (True, None) when etag is set and (False, None) when etag is
\* None; it never returns changed = False with a setting.
C16_CheckMapsAnswers ==
    \A i \in 1..Len(calls) :
        calls[i].req = "check" =>
            /\ calls[i].kind = "setting" =>
                   /\ calls[i].changed
                   /\ calls[i].updated # None
                   /\ calls[i].updated = server[calls[i].key]
            /\ calls[i].kind = "not_modified" =>
                   /\ ~calls[i].changed
                   /\ calls[i].updated = None
            /\ calls[i].kind = "not_found" =>
                   /\ calls[i].changed <=> calls[i].etag # None
                   /\ calls[i].updated = None
            /\ ~calls[i].changed => calls[i].updated = None

\* one call met both kinds of 404: a key watched without an etag and a key
\* watched with one
C16_Witness ==
    \E i, j \in 1..Len(calls) :
        /\ calls[i].req = "check" /\ calls[i].kind = "not_found"
        /\ calls[i].etag = None /\ ~calls[i].changed
        /\ calls[j].req = "check" /\ calls[j].kind = "not_found"
        /\ calls[j].etag # None /\ calls[j].changed

\* C17: when the check of a watched entry fails with an error that is
\* neither "not modified" nor 404, refresh_configuration_settings raises it:
\* the failed check is its last request, it returns nothing, sends no load
\* or list request even if an earlier entry reported a change, and leaves
\* the caller's map and the client's failed_attempts and backoff_end_time as
\* they were.
C17_ErrorPropagates ==
    [][result'.op = "refresh" =>
          /\ result'.raised <=>
                 \E i \in 1..Len(calls') : calls'[i].kind = "error"
          /\ result'.raised =>
                 /\ calls'[Len(calls')].kind = "error"
                 /\ result'.changed = FALSE
                 /\ result'.sentinel_keys = << >>
                 /\ result'.settings = << >>
                 /\ Count(calls', "load") = 0
                 /\ Count(calls', "list") = 0
                 /\ refresh_on' = refresh_on
                 /\ heap' = heap
                 /\ _replica_clients' = _replica_clients]_vars

\* the second check failed after the first had reported a change, on a
\* client that has failed before
C17_Witness ==
    /\ result.op = "refresh" /\ result.raised
    /\ Len(calls) = 2
    /\ calls[1].changed
    /\ calls[2].kind = "error"
    /\ heap[1].failed_attempts = 1
    /\ heap[1].backoff_end_time = 1000

\* C14: a call of refresh_configuration_settings leaves the watched-keys map
\* the caller passed in as it was, whatever the store answers; when a change
\* is detected the new etags are in the returned map only.
C14_CallerMapUntouched ==
    [][result'.op = "refresh" => refresh_on' = refresh_on]_vars
\* C20: when a call of refresh_configuration_settings has reported a change
\* and the caller goes on with the map it returned, the next call with that
\* map, the store not having changed in between, reports no change and
\* sends no load: whatever the change was, a deleted watched key and a
\* changed watched key that no selector matches included.
C20_RefreshConverges ==
    [][(/\ result.op = "refresh" /\ result.changed
        /\ refresh_on = result.sentinel_keys
        /\ server' = server
        /\ result'.op = "refresh" /\ ~result'.raised)
       => /\ ~result'.changed
          /\ Count(calls', "load") = 0]_vars

(* ----------------------- is_active and backoff ------------------------- *)
Range(seq) == {seq[i] : i \in 1..Len(seq)}

BackingOff(client, now) == client.backoff_end_time > now * ms_per_second

\* what C4 says of construction and of the way back to active: every client
\* of a fresh pool has backoff_end_time = 0 and is active; only backoff(c)
\* changes c.backoff_end_time; get_active_clients returns no client whose
\* backoff_end_time the clock has not reached
C4_Frame ==
    /\ (last'.op = "construct" /\ phase' = "ready") =>
           \A i \in 1..Len(_replica_clients') :
               /\ heap'[_replica_clients'[i]].backoff_end_time = 0
               /\ ~BackingOff(heap'[_replica_clients'[i]], clock')
    /\ \A c \in DOMAIN heap :
           heap'[c].backoff_end_time # heap[c].backoff_end_time =>
               last'.op = "backoff" /\ last'.client = c
    /\ last'.op = "get_active_clients" =>
           \A c \in Range(last'.active) :
               clock * ms_per_second >= heap[c].backoff_end_time

\* C4 as stated: for every min/max backoff, min_backoff_sec = 0 included, a
\* client is active right after construction, is not active right after
\* backoff(client) at the same clock reading, and is active again only once
\* the clock is past the backoff_end_time of that call.
C4_AsStated ==
    [][/\ C4_Frame
       /\ last'.op = "backoff" =>
              /\ clock' = clock
              /\ BackingOff(heap'[last'.client], clock')]_vars

\* C4, amended: the same for every min/max backoff with
\* min_backoff_sec >= 1; the client is active again once the clock has
\* reached the backoff_end_time of that call.
C4_BackoffExcludesClient ==
    [][/\ C4_Frame
       /\ (last'.op = "backoff" /\ cfg.min_backoff_sec >= 1) =>
              /\ clock' = clock
              /\ BackingOff(heap'[last'.client], clock')]_vars

\* a client backed off a second ago, with a window longer than that
C4_Witness ==
    /\ last.op = "get_active_clients"
    /\ cfg.min_backoff_sec >= 1
    /\ clock > 0
    /\ \E i \in 1..Len(_replica_clients) :
           /\ heap[_replica_clients[i]].failed_attempts > 0
           /\ BackingOff(heap[_replica_clients[i]], clock)
           /\ _replica_clients[i] \notin Range(last.active)

\* what C19 says of one step: the window backoff sets, what moves it, and
\* what get_active_clients returns
C19_Window ==
    /\ last'.op = "backoff" =>
           /\ heap'[last'.client].backoff_end_time
                  <= clock * 1000
                         + Max(cfg.min_backoff_sec, cfg.max_backoff_sec) * 1000
           /\ clock' = clock
    /\ \A c \in DOMAIN heap :
           heap'[c].backoff_end_time # heap[c].backoff_end_time =>
               last'.op = "backoff" /\ last'.client = c
    /\ last'.op = "get_active_clients" =>
           \A c \in Range(_replica_clients) :
               clock * 1000 >= heap[c].backoff_end_time =>
                   c \in Range(last'.active)

\* C19: a client that is backing off becomes active again as the clock
\* advances, with no call made on it; backoff sets the end of the window at
\* most max(min_backoff_sec, max_backoff_sec) * 1000 ms after the call and
\* nothing else moves it; and get_active_clients returns every client of
\* the pool whose window the clock has reached.
C19_BackoffIsTemporary ==
    /\ \A c \in 1..MaxClients :
           (c \in DOMAIN heap /\ BackingOff(heap[c], clock))
               ~> (c \in DOMAIN heap /\ ~BackingOff(heap[c], clock))
    /\ [][C19_Window]_vars

\* a client that was backed off is returned by get_active_clients at the
\* very time its window ends
C19_Witness ==
    /\ last.op = "get_active_clients"
    /\ cfg.min_backoff_sec >= 1
    /\ \E c \in Range(last.active) :
           /\ heap[c].failed_attempts > 0
           /\ heap[c].backoff_end_time = clock * 1000

(* -------------------------- _calculate_backoff ------------------------- *)
RECURSIVE Pow2(_)
Pow2(n) == IF n = 0 THEN 1 ELSE 2 * Pow2(n - 1)

\* the greatest j with 2^j <= n, for n >= 1
RECURSIVE Log2(_)
Log2(n) == IF n < 2 THEN 0 ELSE 1 + Log2(n \div 2)

MinMs(config) == config.min_backoff_sec * 1000
MaxMs(config) == config.max_backoff_sec * 1000

\* max(1, minBackoffMs) * 2^min(attempts, 63) exceeds maxBackoffMs
\* (2^k > maxMs / m exactly when k > log2 of the whole part of maxMs / m)
ProductExceeds(config, attempts) ==
    Smaller(attempts, 63) > Log2(MaxMs(config) \div Max(1, MinMs(config)))

\* ceiling(attempts): that product clamped to maxBackoffMs
Ceiling(config, attempts) ==
    IF ProductExceeds(config, attempts) THEN MaxMs(config)
    ELSE Max(1, MinMs(config)) * Pow2(Smaller(attempts, 63))

\* C11: for attempts >= 0 and 0 <= min_backoff_sec < max_backoff_sec, every
\* value _calculate_backoff(attempts) returns, whatever the jitter draw, is
\* at least the minimum and at most ceiling(attempts); ceiling does not
\* decrease with attempts, never exceeds the maximum, and is the maximum
\* whenever the unclamped product exceeds it.
C11_DelayWithinCeiling ==
    (last.op = "calculate" /\ cfg.min_backoff_sec < cfg.max_backoff_sec) =>
        /\ last.backoff_time >= MinMs(cfg)
        /\ last.backoff_time <= Ceiling(cfg, last.attempts)
        /\ Ceiling(cfg, last.attempts) <= MaxMs(cfg)
        /\ last.attempts > 0 =>
               Ceiling(cfg, last.attempts - 1) <= Ceiling(cfg, last.attempts)
        /\ ProductExceeds(cfg, last.attempts) =>
               Ceiling(cfg, last.attempts) = MaxMs(cfg)

\* a delay above the minimum and below the maximum: the ceiling of a small
\* number of attempts, drawn with a positive jitter
C11_Witness ==
    /\ last.op = "calculate"
    /\ cfg.min_backoff_sec < cfg.max_backoff_sec
    /\ last.attempts > 0
    /\ last.backoff_time > MinMs(cfg)
    /\ last.backoff_time = Ceiling(cfg, last.attempts)
    /\ last.backoff_time < MaxMs(cfg)

\* C12: with max_backoff_sec <= min_backoff_sec, _calculate_backoff returns
\* exactly min_backoff_sec * 1000 for every attempts and every jitter draw,
\* and every backoff(client), however often the client has failed, counts
\* the failure and sets backoff_end_time to now + min_backoff_sec * 1000.
C12_FlatWindow ==
    [][cfg.max_backoff_sec <= cfg.min_backoff_sec =>
          /\ last'.op = "calculate" => last'.backoff_time = MinMs(cfg)
          /\ last'.op = "backoff" =>
                 /\ last'.backoff_time = MinMs(cfg)
                 /\ heap'[last'.client].failed_attempts
                        = heap[last'.client].failed_attempts + 1
                 /\ heap'[last'.client].backoff_end_time
                        = clock * 1000 + MinMs(cfg)]_vars

\* a client backed off for the 64th time or later, after the clock has moved
C12_Witness ==
    /\ last.op = "backoff"
    /\ cfg.max_backoff_sec <= cfg.min_backoff_sec
    /\ cfg.min_backoff_sec >= 1
    /\ clock > 0
    /\ heap[last.client].failed_attempts > 63
    /\ heap[last.client].backoff_end_time = clock * 1000 + MinMs(cfg)

(* ------------------------------ the pool ------------------------------- *)
\* C5: once construction has succeeded, the pool is never empty and its
\* first client is the client __init__ created for the original endpoint.
C5_OriginalFirst ==
    phase = "ready" =>
        /\ Len(_replica_clients) >= 1
        /\ _replica_clients[1] = 1
        /\ heap[1].endpoint = cfg.endpoint

\* a rebuild that dropped a client and was told the original endpoint
C5_Witness ==
    /\ phase = "ready"
    /\ last.op = "refresh_clients" /\ last.discovered
    /\ last.failover # NoneOpt
    /\ OriginalEndpoint \in Range(last.failover[1])
    /\ \E c \in DOMAIN heap : c \notin Range(_replica_clients)

\* C6: get_active_clients returns the clients of the pool whose
\* backoff_end_time is at most the time in milliseconds, in pool order,
\* changes nothing of the pool or its clients, and returns an empty list
\* without an error when every client is backing off.
C6_ActiveFilter ==
    [][last'.op = "get_active_clients" =>
          /\ last'.active =
                 SelectSeq(_replica_clients,
                     LAMBDA c : heap[c].backoff_end_time
                                    <= clock * ms_per_second)
          /\ last'.error = "none"
          /\ UNCHANGED << phase, heap, _replica_clients,
                          _next_update_time, clock >>]_vars

\* the original backing off, a replica behind it active
C6_Witness ==
    /\ last.op = "get_active_clients"
    /\ Len(_replica_clients) >= 2
    /\ BackingOff(heap[_replica_clients[1]], clock)
    /\ last.active # << >>
    /\ Len(last.active) < Len(_replica_clients)

\* C7: __init__ given both a connection string and a credential, or
\* neither, fails with the configuration error and creates no client; it
\* succeeds only with exactly one of them and an endpoint.
C7_ExactlyOneCredential ==
    last.op = "construct" =>
        /\ (cfg.connection_string <=> cfg.credential) =>
               /\ phase = "failed"
               /\ last.error = "ValueError"
               /\ heap = << >>
        /\ phase = "ready" =>
               /\ ~(cfg.connection_string <=> cfg.credential)
               /\ cfg.endpoint # << >>

Rebuilt(call) ==
    /\ call.op = "refresh_clients"
    /\ call.discovered
    /\ call.failover # NoneOpt
    /\ call.failover[1] # << >>

\* C8: when refresh_clients rebuilds the pool, every endpoint of the old
\* pool that discovery still names is held afterwards by a client of the old
\* pool with its failed_attempts and backoff_end_time as before; every
\* client of the new pool that is not from the old pool is new, has
\* failed_attempts = 0 and backoff_end_time = 0, and holds an endpoint the
\* old pool had no client for.
C8_RebuildKeepsHealth ==
    [][Rebuilt(last') =>
          LET old == Range(_replica_clients)
              new == Range(_replica_clients')
              named == Range(last'.failover[1])
          IN  /\ \A c \in old :
                     heap[c].endpoint \in named =>
                         \E d \in new \cap old :
                             /\ heap[d].endpoint = heap[c].endpoint
                             /\ heap'[d] = heap[d]
              /\ \A d \in new \cap old : heap'[d] = heap[d]
              /\ \A d \in new \ old :
                     /\ d \notin DOMAIN heap
                     /\ heap'[d].failed_attempts = 0
                     /\ heap'[d].backoff_end_time = 0
                     /\ \A c \in old : heap[c].endpoint # heap'[d].endpoint]_vars

\* a rebuild kept a replica that is still backing off and added a client
C8_Witness ==
    /\ Rebuilt(last)
    /\ \E i \in 2..Len(_replica_clients) :
           /\ heap[_replica_clients[i]].failed_attempts > 0
           /\ BackingOff(heap[_replica_clients[i]], clock)
    /\ \E i \in 2..Len(_replica_clients) :
           /\ heap[_replica_clients[i]].failed_attempts = 0
           /\ _replica_clients[i] = Len(heap)

\* C9: refresh_clients with discovery disabled, or before
\* _next_update_time, calls no discovery and leaves the pool, its clients
\* and _next_update_time as they were: the manager equals the one before.
C9_NotDueNoOp ==
    [][(last'.op = "refresh_clients"
            /\ (~cfg.replica_discovery_enabled \/ clock < _next_update_time))
        => /\ ~last'.discovered
           /\ _replica_clients' = _replica_clients
           /\ heap' = heap
           /\ _next_update_time' = _next_update_time
           /\ ManagerEq(_replica_clients', heap', _replica_clients, heap)]_vars

\* a call before the interval has passed, on a pool with a failed client
C9_Witness ==
    /\ last.op = "refresh_clients"
    /\ ~last.discovered
    /\ cfg.replica_discovery_enabled
    /\ clock < _next_update_time
    /\ Len(_replica_clients) >= 2
    /\ FailedAttempts(heap) > 0

\* C10: a due refresh_clients that is answered None raises nothing, leaves
\* the pool and its clients as they were and sets _next_update_time to now
\* plus 3600 s; discovery is called only when _next_update_time has come,
\* and nothing but a discovery call moves _next_update_time.
C10_UnknownDefers ==
    [][/\ (last'.op = "refresh_clients" /\ last'.discovered
               /\ last'.failover = NoneOpt)
           => /\ phase' = "ready"
              /\ last'.error = "none"
              /\ _replica_clients' = _replica_clients
              /\ heap' = heap
              /\ _next_update_time' = clock + 3600
       /\ (last'.op = "refresh_clients" /\ last'.discovered)
           => clock >= _next_update_time
       /\ _next_update_time' # _next_update_time
           => last'.discovered]_vars

\* None was answered and the long interval has not passed since
C10_Witness ==
    /\ last.op = "refresh_clients"
    /\ ~last.discovered
    /\ cfg.replica_discovery_enabled
    /\ _next_update_time > clock
    /\ _next_update_time - clock > MINIMAL_CLIENT_REFRESH_INTERVAL

(* ------------------------------ discovery ------------------------------ *)
\* the endpoints of the pool, in pool order
PoolEndpoints(clients, store) ==
    [i \in 1..Len(clients) |-> store[clients[i]].endpoint]

\* C15 as stated: after a refresh_clients that called discovery and was
\* answered a list, the empty list included, the endpoints of the pool are
\* the original endpoint followed by the endpoints of the list in order, so
\* no replica whose endpoint the list lacks is left in the pool.
C15_AsStated ==
    [][(last'.op = "refresh_clients" /\ last'.discovered
            /\ last'.failover # NoneOpt)
        => PoolEndpoints(_replica_clients', heap')
               = << cfg.endpoint >> \o last'.failover[1]]_vars

\* C15, amended: the same after a refresh_clients that was answered a list
\* of at least one endpoint; answered the empty list, refresh_clients leaves
\* the pool as it was.
C15_PoolFollowsDiscovery ==
    [][/\ Rebuilt(last') =>
              PoolEndpoints(_replica_clients', heap')
                  = << cfg.endpoint >> \o last'.failover[1]
       /\ (last'.op = "refresh_clients" /\ last'.discovered
               /\ last'.failover = Some(<< >>))
           => /\ _replica_clients' = _replica_clients
              /\ heap' = heap]_vars

\* a rebuild left out a replica whose endpoint the list lacks and put a new
\* endpoint in its place
C15_Witness ==
    /\ Rebuilt(last)
    /\ \E c \in DOMAIN heap :
           /\ c \notin Range(_replica_clients)
           /\ heap[c].endpoint \notin Range(last.failover[1])
    /\ \E i \in 2..Len(_replica_clients) :
           /\ _replica_clients[i] = Len(heap)
           /\ heap[_replica_clients[i]].endpoint # OriginalEndpoint

\* C18: __init__ given exactly one of connection string and credential, and
\* an endpoint, succeeds whatever the first discovery call answers: answered
\* a list, the pool is the original client followed by one new client per
\* listed endpoint in order; answered None, the pool is the original client
\* alone and nothing is raised.
C18_ConstructionSucceeds ==
    (/\ last.op = "construct"
     /\ ~(cfg.connection_string <=> cfg.credential)
     /\ cfg.endpoint # << >>)
    => /\ phase = "ready"
       /\ last.error = "none"
       /\ _replica_clients = [i \in 1..Len(heap) |-> i]
       /\ PoolEndpoints(_replica_clients, heap)
              = << cfg.endpoint >>
                    \o (IF last.failover = NoneOpt THEN << >>
                        ELSE last.failover[1])

(* -------------------------------- close -------------------------------- *)
\* C13: a rebuild closes every client it drops because discovery no longer
\* names its endpoint, and once the manager has been closed, after
\* construction and any number of refresh_clients calls, every client the
\* manager ever created has had close() called on it.
C13_EveryClientClosed ==
    [][/\ (last'.op = "refresh_clients" /\ last'.discovered
               /\ last'.failover # NoneOpt) =>
              \A c \in {_replica_clients[i] : i \in 1..Len(_replica_clients)}
                        \ {_replica_clients'[i] :
                               i \in 1..Len(_replica_clients')} :
                  (\A i \in 1..Len(last'.failover[1]) :
                       last'.failover[1][i] # heap[c].endpoint)
                      => heap'[c].closed >= 1
       /\ last'.op = "close" =>
              \A c \in DOMAIN heap' : heap'[c].closed >= 1]_vars

\* C21: after construction and any number of refresh_clients calls, whatever
\* discovery answered (a list naming the original endpoint or naming an
\* endpoint twice included), no two positions of the pool hold the same
\* endpoint or the same client, and close() closes no client twice.
C21_PoolHasNoDuplicates ==
    phase \in {"ready", "closed"} =>
        /\ \A i, j \in 1..Len(_replica_clients) :
               i # j =>
                   /\ _replica_clients[i] # _replica_clients[j]
                   /\ heap[_replica_clients[i]].endpoint
                          # heap[_replica_clients[j]].endpoint
        /\ \A c \in DOMAIN heap : heap[c].closed <= 1

(* ------------------------- refresh_feature_flags ----------------------- *)
\* C3: refresh_feature_flags reports a change and loads only when the check
\* of some watched flag reported a change; when every check yields
\* changed = FALSE it sends no load and returns (False, None, None, {}).
C3_LoadOnlyWhenChanged ==
    (ff_result.op = "refresh_ff" /\ ~ff_result.raised) =>
        /\ (ff_result.changed \/ Count(ff_calls, "load") > 0)
               => SomeChanged(ff_calls)
        /\ ~SomeChanged(ff_calls) =>
               /\ Count(ff_calls, "load") = 0
               /\ ff_result.changed = FALSE
               /\ ff_result.sentinel_keys = NoneOpt
               /\ ff_result.feature_flags = NoneOpt
               /\ ff_result.filters_used = {}

====
